---- MODULE Spec2Model ----
(***************************************************************************)
(* Civitas: committee lifecycle of the rotating-savings platform.          *)
(*                                                                         *)
(* The model follows database/db_manager.py.  Every repository method has  *)
(* two branches, chosen by get_connection(): the PostgreSQL branch, which  *)
(* works on the tables created by initialize_database, and the in-memory   *)
(* fallback branch, which works on fallback_data / fallback_invitations.   *)
(* Identifiers produced by uuid.uuid4() are modelled as fresh small        *)
(* integers; they are never reused.  Columns that no method reads to take  *)
(* a decision (title, description, category, payment_frequency, dates      *)
(* other than response_date, message) are left out of the rows.            *)
(* The schedule functions of utils/payment_manager.py and the trust score  *)
(* of utils/trust_score.py are operators applied to chosen arguments.      *)
(***************************************************************************)
EXTENDS Integers, FiniteSets, Sequences, TLC

VARIABLES conn, db, fallback_data, last, txn, args

vars == <<conn, db, fallback_data, last, txn, args>>

(***************************************************************************)
(* Bounds of the model.                                                    *)
(***************************************************************************)
MaxCommittees == 1
MaxTotal == 3
MaxInvitations == 1
MaxPending == 2
MaxResponses == 2
MaxStartDay == 2
MaxDuration == 3
MaxMembers == 2
MaxPayments == 2
MaxUserCommittees == 2
MaxUsers == 2

(***************************************************************************)
(* The users: the two demo users every store starts with and one           *)
(* registered member.  The two browser sessions of the concurrent          *)
(* specification.                                                          *)
(***************************************************************************)
Users == {"demo_admin", "demo_member", "member2"}

Sessions == {"s1", "s2"}

role(u) == IF u = "demo_admin" THEN "admin" ELSE "member"

CommitteeIds == 1..MaxCommittees

CommitteeTypes == {"public", "private"}

Statuses == {"active", "paused", "completed", "cancelled"}

(* The monthly amounts and durations entered in the creation form. *)
Amounts == {500, 1000, 2000}

Durations == {0, 2}

Responses == {"accepted", "rejected"}

NoRows == [x \in {} |-> 0]

(***************************************************************************)
(* A store: the committees and committee_invitations tables as functions   *)
(* from id to row, committee_members, payments and payouts as sets of      *)
(* rows.  next_committee is the next fresh committee id.  No method        *)
(* inserts a payment or a payout, so these two tables stay as created.     *)
(* users is the users table, from id to row: the demo users are inserted   *)
(* with trust scores 95 and 88, a registered user gets 85.  The ids of     *)
(* the three users every store starts with are written as their           *)
(* usernames; next_user numbers the ids create_user hands out.             *)
(***************************************************************************)
InitialUsers ==
  [u \in Users |->
     [username |-> u, role |-> role(u),
      trust_score |-> IF u = "demo_admin" THEN 95
                      ELSE IF u = "demo_member" THEN 88 ELSE 85]]

EmptyStore ==
  [committees |-> NoRows, committee_members |-> {}, invitations |-> NoRows,
   payments |-> {}, payouts |-> {}, next_committee |-> 1,
   users |-> InitialUsers, next_user |-> 1]

Result(s, r) == [store |-> s, ret |-> r]

IsMember(s, c, u) ==
  \E m \in s.committee_members : m.committee_id = c /\ m.user_id = u

MembersOf(s, c) == {m \in s.committee_members : m.committee_id = c}

NextInvitation(s) == Cardinality(DOMAIN s.invitations) + 1

(***************************************************************************)
(* create_committee that forgets the admin's membership.                   *)
(***************************************************************************)
create_committee_without_admin(s, monthly_amount, total_members, duration, committee_type, admin_id) ==
  LET id == s.next_committee
      row == [monthly_amount |-> monthly_amount,
              total_members |-> total_members, current_members |-> 1,
              duration |-> duration,
              committee_type |-> committee_type, status |-> "active",
              admin_id |-> admin_id]
  IN  Result([s EXCEPT !.committees = @ @@ (id :> row),
                       !.next_committee = @ + 1], TRUE)

(***************************************************************************)
(* create_committee: the same effect in both branches.  The arguments are *)
(* stored as they come, the committee row starts with current_members = 1 *)
(* and status 'active', and the admin gets the membership at position 1.  *)
(***************************************************************************)
create_committee(s, monthly_amount, total_members, duration, committee_type, admin_id) ==
  LET id == s.next_committee
      row == [monthly_amount |-> monthly_amount,
              total_members |-> total_members, current_members |-> 1,
              duration |-> duration,
              committee_type |-> committee_type, status |-> "active",
              admin_id |-> admin_id]
      member == [committee_id |-> id, user_id |-> admin_id, position |-> 1]
  IN  Result([s EXCEPT !.committees = @ @@ (id :> row),
                       !.committee_members = @ \cup {member},
                       !.next_committee = @ + 1], TRUE)

(***************************************************************************)
(* join_committee's fallback branch with the position taken as             *)
(* current_members instead of current_members + 1.                         *)
(***************************************************************************)
join_committee_fallback_same_position(s, c, u) ==
  IF c \in DOMAIN s.committees
     /\ s.committees[c].current_members < s.committees[c].total_members
  THEN IF IsMember(s, c, u)
       THEN Result(s, FALSE)
       ELSE LET position == s.committees[c].current_members
                member == [committee_id |-> c, user_id |-> u,
                           position |-> position]
            IN  Result([s EXCEPT !.committee_members = @ \cup {member},
                                 !.committees[c].current_members = @ + 1],
                       TRUE)
  ELSE Result(s, FALSE)

(***************************************************************************)
(* join_committee's fallback branch without the already-joined check.      *)
(***************************************************************************)
join_committee_fallback_rejoin(s, c, u) ==
  IF c \in DOMAIN s.committees
     /\ s.committees[c].current_members < s.committees[c].total_members
  THEN LET position == s.committees[c].current_members + 1
           member == [committee_id |-> c, user_id |-> u,
                      position |-> position]
       IN  Result([s EXCEPT !.committee_members = @ \cup {member},
                            !.committees[c].current_members = @ + 1],
                  TRUE)
  ELSE Result(s, FALSE)

(***************************************************************************)
(* join_committee, fallback branch: the committee must exist and have      *)
(* room, the user must not be a member yet; the position is                *)
(* current_members + 1.                                                    *)
(***************************************************************************)
join_committee_fallback(s, c, u) ==
  IF c \in DOMAIN s.committees
     /\ s.committees[c].current_members < s.committees[c].total_members
  THEN IF IsMember(s, c, u)
       THEN Result(s, FALSE)
       ELSE LET position == s.committees[c].current_members + 1
                member == [committee_id |-> c, user_id |-> u,
                           position |-> position]
            IN  Result([s EXCEPT !.committee_members = @ \cup {member},
                                 !.committees[c].current_members = @ + 1],
                       TRUE)
  ELSE Result(s, FALSE)

(***************************************************************************)
(* The join statements without the check that the committee has space.     *)
(***************************************************************************)
_join_committee_internal_no_space_check(s, c, u) ==
  IF c \notin DOMAIN s.committees
  THEN Result(s, FALSE)
  ELSE IF IsMember(s, c, u)
       THEN Result(s, FALSE)
       ELSE LET position == s.committees[c].current_members + 1
                member == [committee_id |-> c, user_id |-> u,
                           position |-> position]
            IN  Result([s EXCEPT !.committee_members = @ \cup {member},
                                 !.committees[c].current_members = @ + 1],
                       TRUE)

(***************************************************************************)
(* The statements of a join inside an open transaction, shared by          *)
(* join_committee's database branch and respond_to_invitation:             *)
(* SELECT the counts, INSERT the membership at position                    *)
(* current_members + 1 (UNIQUE(committee_id, user_id) raises               *)
(* IntegrityError, which is caught), UPDATE current_members.  The caller   *)
(* commits on TRUE and rolls back on FALSE.                                *)
(***************************************************************************)
_join_committee_internal(s, c, u) ==
  IF c \notin DOMAIN s.committees
     \/ s.committees[c].current_members >= s.committees[c].total_members
  THEN Result(s, FALSE)
  ELSE IF IsMember(s, c, u)
       THEN Result(s, FALSE)
       ELSE LET position == s.committees[c].current_members + 1
                member == [committee_id |-> c, user_id |-> u,
                           position |-> position]
            IN  Result([s EXCEPT !.committee_members = @ \cup {member},
                                 !.committees[c].current_members = @ + 1],
                       TRUE)

(***************************************************************************)
(* join_committee, database branch, run as one uninterrupted transaction:  *)
(* the same statements as _join_committee_internal, then commit; every     *)
(* failure rolls back and returns False.                                   *)
(***************************************************************************)
join_committee_db(s, c, u) ==
  LET r == _join_committee_internal(s, c, u)
  IN  IF r.ret THEN r ELSE Result(s, FALSE)

join_committee(connected, s, c, u) ==
  IF connected THEN join_committee_db(s, c, u)
  ELSE join_committee_fallback(s, c, u)

(***************************************************************************)
(* send_committee_invitation.  Database branch: INSERT with status         *)
(* 'pending'; the only failure is a foreign key violation (committee_id    *)
(* does not reference a committee row).  Fallback branch: the invitation   *)
(* is stored unconditionally.                                              *)
(***************************************************************************)
send_committee_invitation(connected, s, c, invited_user_id, invited_by_id) ==
  LET id == NextInvitation(s)
      row == [committee_id |-> c, invited_user_id |-> invited_user_id,
              invited_by_id |-> invited_by_id, status |-> "pending",
              response_date |-> 0]
  IN  IF connected /\ c \notin DOMAIN s.committees
      THEN Result(s, FALSE)
      ELSE Result([s EXCEPT !.invitations = @ @@ (id :> row)], TRUE)

(***************************************************************************)
(* respond_to_invitation.  response_date counts the times the column was   *)
(* written (0 is NULL): every write stores a new timestamp.                *)
(* Database branch: UPDATE ... WHERE id = %s AND status = 'pending'; no    *)
(* row updated returns False; on 'accepted' the join runs in the same      *)
(* transaction and a failed join rolls the status change back.             *)
(* Fallback branch: the status and response_date are overwritten whatever  *)
(* the current status is, and on 'accepted' the result is join_committee's.*)
(***************************************************************************)
respond_to_invitation_db(s, i, response) ==
  IF i \notin DOMAIN s.invitations \/ s.invitations[i].status # "pending"
  THEN Result(s, FALSE)
  ELSE LET updated == [s EXCEPT !.invitations[i].status = response,
                                !.invitations[i].response_date = @ + 1]
       IN  IF response = "accepted"
           THEN LET r == _join_committee_internal(updated,
                           s.invitations[i].committee_id,
                           s.invitations[i].invited_user_id)
                IN  IF r.ret THEN r ELSE Result(s, FALSE)
           ELSE Result(updated, TRUE)

respond_to_invitation_fallback(s, i, response) ==
  IF i \in DOMAIN s.invitations
  THEN LET updated == [s EXCEPT !.invitations[i].status = response,
                                !.invitations[i].response_date = @ + 1]
       IN  IF response = "accepted"
           THEN join_committee_fallback(updated,
                  s.invitations[i].committee_id,
                  s.invitations[i].invited_user_id)
           ELSE Result(updated, TRUE)
  ELSE Result(s, FALSE)

respond_to_invitation(connected, s, i, response) ==
  IF connected THEN respond_to_invitation_db(s, i, response)
  ELSE respond_to_invitation_fallback(s, i, response)

(***************************************************************************)
(* update_committee_settings: overwrites status and committee_type of an   *)
(* existing committee; False when the committee does not exist.            *)
(***************************************************************************)
update_committee_settings(s, c, status, committee_type) ==
  IF c \in DOMAIN s.committees
  THEN Result([s EXCEPT !.committees[c].status = status,
                        !.committees[c].committee_type = committee_type],
              TRUE)
  ELSE Result(s, FALSE)

(***************************************************************************)
(* delete_committee.  Database branch: deletes the payments, the payouts   *)
(* and the memberships, then the committee row; a committee_invitations    *)
(* row that still references the committee makes the last DELETE violate   *)
(* its foreign key, and the transaction is rolled back.  Fallback branch:  *)
(* removes the committee and its memberships; payments, payouts and        *)
(* invitations are left alone.                                             *)
(***************************************************************************)
Without(f, k) == [x \in DOMAIN f \ {k} |-> f[x]]

NotOf(rows, c) == {x \in rows : x.committee_id # c}

(***************************************************************************)
(* delete_committee that leaves the memberships behind.                    *)
(***************************************************************************)
delete_committee_keep_members(connected, s, c) ==
  IF c \notin DOMAIN s.committees
  THEN Result(s, FALSE)
  ELSE IF connected
          /\ \E i \in DOMAIN s.invitations : s.invitations[i].committee_id = c
       THEN Result(s, FALSE)
       ELSE Result([s EXCEPT !.committees = Without(@, c),
                             !.payments = IF connected THEN NotOf(@, c) ELSE @,
                             !.payouts = IF connected THEN NotOf(@, c) ELSE @],
                   TRUE)

delete_committee(connected, s, c) ==
  IF c \notin DOMAIN s.committees
  THEN Result(s, FALSE)
  ELSE IF connected
          /\ \E i \in DOMAIN s.invitations : s.invitations[i].committee_id = c
       THEN Result(s, FALSE)
       ELSE Result([s EXCEPT !.committees = Without(@, c),
                             !.committee_members = NotOf(@, c),
                             !.payments = IF connected THEN NotOf(@, c) ELSE @,
                             !.payouts = IF connected THEN NotOf(@, c) ELSE @],
                   TRUE)

(***************************************************************************)
(* get_user_committees: the committee rows joined with the memberships of  *)
(* the user (a membership whose committee is missing contributes nothing). *)
(* The result is the same in both branches.                                *)
(***************************************************************************)
Committee(s, c) ==
  [id |-> c, monthly_amount |-> s.committees[c].monthly_amount,
   total_members |-> s.committees[c].total_members,
   current_members |-> s.committees[c].current_members,
   duration |-> s.committees[c].duration,
   committee_type |-> s.committees[c].committee_type,
   status |-> s.committees[c].status, admin_id |-> s.committees[c].admin_id]

get_user_committees(s, user_id) ==
  {Committee(s, m.committee_id) :
     m \in {x \in s.committee_members :
              x.user_id = user_id /\ x.committee_id \in DOMAIN s.committees}}

(***************************************************************************)
(* get_member_position_in_committee counted from 0.                        *)
(***************************************************************************)
get_member_position_in_committee_from_zero(s, c, u) ==
  IF IsMember(s, c, u)
  THEN (CHOOSE m \in MembersOf(s, c) : m.user_id = u).position - 1
  ELSE 0

(***************************************************************************)
(* get_member_position_in_committee: the position of the user's            *)
(* membership in the committee, 0 when there is none.                      *)
(***************************************************************************)
get_member_position_in_committee(s, c, u) ==
  IF IsMember(s, c, u)
  THEN (CHOOSE m \in MembersOf(s, c) : m.user_id = u).position
  ELSE 0

(***************************************************************************)
(* State.  conn: whether get_connection() returns a connection (fixed      *)
(* during a behaviour).  db: the committed contents of the PostgreSQL      *)
(* tables.  fallback_data: the in-memory store, together with              *)
(* fallback_invitations.  last: the latest call and what it returned.      *)
(* txn: the join_committee transaction each session has open in the        *)
(* concurrent specification.  args: the arguments handed to the functions  *)
(* of utils/, which keep no state of their own.                            *)
(***************************************************************************)
Store == IF conn THEN db ELSE fallback_data

Call(op, c, u, i, response, by, ret) ==
  [op |-> op, committee_id |-> c, user_id |-> u, invitation_id |-> i,
   response |-> response, invited_by_id |-> by, ret |-> ret]

NoCall == Call("none", 0, "none", 0, "none", "none", FALSE)

IdleTxn ==
  [pc |-> "idle", committee_id |-> 0, user_id |-> "none", current |-> 0,
   total |-> 0, position |-> 0, ret |-> FALSE, was_member |-> FALSE,
   overlap |-> {}, invitation_id |-> 0, response |-> "none",
   was_pending |-> FALSE]

NoArgs == [none |-> TRUE]

Init ==
  /\ conn \in BOOLEAN
  /\ db = EmptyStore
  /\ fallback_data = EmptyStore
  /\ last = NoCall
  /\ txn = [p \in Sessions |-> IdleTxn]
  /\ args = NoArgs

Commit(r, call) ==
  /\ IF conn
     THEN db' = r.store /\ UNCHANGED fallback_data
     ELSE fallback_data' = r.store /\ UNCHANGED db
  /\ last' = call
  /\ UNCHANGED <<conn, txn, args>>

(***************************************************************************)
(* The submit branch of the committee creation form: members are offered   *)
(* only 'public'; a zero among monthly_amount, total_members and duration, *)
(* monthly_amount below 1000 and total_members below 2 are refused with an *)
(* error, and otherwise create_committee is called for the logged-in user. *)
(* The form's other refusals (empty or short title, missing agreements)    *)
(* end the same way: an error and no call.                                 *)
(***************************************************************************)
show_create_committee(user_id, monthly_amount, total_members, duration, committee_type) ==
  /\ Store.next_committee <= MaxCommittees
  /\ committee_type = "private" => role(user_id) = "admin"
  /\ IF \/ monthly_amount = 0 \/ total_members = 0 \/ duration = 0
        \/ monthly_amount < 1000
        \/ total_members < 2
     THEN Commit(Result(Store, FALSE),
                 Call("create_committee", 0, user_id, 0, "none", "none",
                      FALSE))
     ELSE Commit(create_committee(Store, monthly_amount, total_members,
                                  duration, committee_type, user_id),
                 Call("create_committee", Store.next_committee, user_id, 0,
                      "none", "none", TRUE))

(***************************************************************************)
(* create_committee called with arguments of any value.                    *)
(***************************************************************************)
CreateCommittee(monthly_amount, total_members, duration, committee_type, admin_id) ==
  /\ Store.next_committee <= MaxCommittees
  /\ LET r == create_committee(Store, monthly_amount, total_members,
                               duration, committee_type, admin_id)
     IN  Commit(r, Call("create_committee", Store.next_committee, admin_id,
                        0, "none", "none", r.ret))

JoinCommittee(c, u) ==
  LET r == join_committee(conn, Store, c, u)
  IN  Commit(r, Call("join_committee", c, u, 0, "none", "none", r.ret))

SendCommitteeInvitation(limit, c, invited_user_id, invited_by_id) ==
  /\ NextInvitation(Store) <= limit
  /\ LET r == send_committee_invitation(conn, Store, c, invited_user_id,
                                        invited_by_id)
     IN  Commit(r, Call("send_committee_invitation", c, invited_user_id,
                        IF r.ret THEN NextInvitation(Store) ELSE 0,
                        "none", invited_by_id, r.ret))

RespondToInvitation(i, response) ==
  /\ i \in DOMAIN Store.invitations
       => Store.invitations[i].response_date < MaxResponses
  /\ LET r == respond_to_invitation(conn, Store, i, response)
     IN  Commit(r, Call("respond_to_invitation", 0, "none", i, response,
                        "none", r.ret))

UpdateCommitteeSettings(c, status, committee_type) ==
  LET r == update_committee_settings(Store, c, status, committee_type)
  IN  Commit(r, Call("update_committee_settings", c, "none", 0, "none",
                     "none", r.ret))

DeleteCommittee(c) ==
  LET r == delete_committee(conn, Store, c)
  IN  Commit(r, Call("delete_committee", c, "none", 0, "none", "none",
                     r.ret))

Create ==
  \E u \in Users, a \in Amounts, t \in 1..MaxTotal, d \in Durations,
     ct \in CommitteeTypes :
    show_create_committee(u, a, t, d, ct)

CreateAny ==
  \E u \in Users, a \in {500, 1000}, t \in 0..MaxTotal, d \in {0, 1},
     ct \in CommitteeTypes \cup {"secret"} :
    CreateCommittee(a, t, d, ct, u)

Join == \E c \in CommitteeIds, u \in Users : JoinCommittee(c, u)

Send(limit) ==
  \E c \in CommitteeIds, u \in Users, by \in Users :
    SendCommitteeInvitation(limit, c, u, by)

Respond(limit) ==
  \E i \in 1..limit, response \in Responses :
    RespondToInvitation(i, response)

Update ==
  \E c \in CommitteeIds, st \in Statuses, ct \in CommitteeTypes :
    UpdateCommitteeSettings(c, st, ct)

Delete == \E c \in CommitteeIds : DeleteCommittee(c)

(***************************************************************************)
(* Spec: the repository methods called one at a time.                      *)
(***************************************************************************)
Next ==
  \/ Create
  \/ Join
  \/ Send(MaxInvitations)
  \/ Respond(MaxInvitations)
  \/ Update
  \/ Delete

Spec == Init /\ [][Next]_vars

(***************************************************************************)
(* SpecInvitations: the invitation workflow alone, with room for           *)
(* MaxPending invitations.                                                 *)
(***************************************************************************)
NextInvitations == Create \/ Send(MaxPending) \/ Respond(MaxPending)

SpecInvitations == Init /\ [][NextInvitations]_vars

(***************************************************************************)
(* SpecCreate: create_committee called directly, followed by joins and     *)
(* deletions.                                                              *)
(***************************************************************************)
NextCreate == CreateAny \/ Join \/ Delete

SpecCreate == Init /\ [][NextCreate]_vars

(***************************************************************************)
(* SpecRace: join_committee's database branch, statement by statement, in  *)
(* two sessions at once.  psycopg2 opens a READ COMMITTED transaction: a   *)
(* SELECT sees committed rows only and takes no lock; an INSERT waits for  *)
(* an uncommitted row with the same (committee_id, user_id) and fails on   *)
(* a committed one; an UPDATE waits for the uncommitted UPDATE of the same *)
(* committees row and then increments the committed value.  was_member     *)
(* and overlap record, for the properties, whether the user was a member   *)
(* when the call began and which calls ran at the same time.               *)
(***************************************************************************)
InFlight(p) == txn[p].pc \in {"selected", "inserted", "updated"}

Finish(p, ret) == [txn EXCEPT ![p].pc = "done", ![p].ret = ret]

JoinSelect(p, c, u) ==
  /\ conn
  /\ txn[p].pc \in {"idle", "done"}
  /\ LET others == {q \in Sessions \ {p} : InFlight(q)}
         exists == c \in DOMAIN db.committees
         current == IF exists THEN db.committees[c].current_members ELSE 0
         total == IF exists THEN db.committees[c].total_members ELSE 0
         begun == [pc |-> "selected", committee_id |-> c, user_id |-> u,
                   current |-> current, total |-> total,
                   position |-> current + 1, ret |-> FALSE,
                   was_member |-> IsMember(db, c, u), overlap |-> others,
                   invitation_id |-> 0, response |-> "none",
                   was_pending |-> FALSE]
         seen == [q \in Sessions |->
                    IF q = p THEN begun
                    ELSE IF q \in others
                         THEN [txn[q] EXCEPT !.overlap = @ \cup {p}]
                         ELSE txn[q]]
     IN  txn' = IF ~exists \/ current >= total
               THEN [seen EXCEPT ![p].pc = "done"]
               ELSE seen
  /\ UNCHANGED <<conn, db, fallback_data, last, args>>

JoinInsert(p) ==
  /\ txn[p].pc = "selected"
  /\ ~\E q \in Sessions \ {p} :
        /\ txn[q].pc \in {"inserted", "updated"}
        /\ txn[q].committee_id = txn[p].committee_id
        /\ txn[q].user_id = txn[p].user_id
  /\ txn' = IF IsMember(db, txn[p].committee_id, txn[p].user_id)
            THEN Finish(p, FALSE)
            ELSE [txn EXCEPT ![p].pc = "inserted"]
  /\ UNCHANGED <<conn, db, fallback_data, last, args>>

JoinUpdate(p) ==
  /\ txn[p].pc = "inserted"
  /\ ~\E q \in Sessions \ {p} :
        /\ txn[q].pc = "updated"
        /\ txn[q].committee_id = txn[p].committee_id
  /\ txn' = [txn EXCEPT ![p].pc = "updated"]
  /\ UNCHANGED <<conn, db, fallback_data, last, args>>

(* The commit of a join that leaves current_members as it was. *)
JoinCommit_count_unchanged(p) ==
  /\ txn[p].pc = "updated"
  /\ LET c == txn[p].committee_id
         i == txn[p].invitation_id
         member == [committee_id |-> c, user_id |-> txn[p].user_id,
                    position |-> txn[p].position]
     IN  db' = [db EXCEPT !.committee_members = @ \cup {member},
                          !.invitations =
                            IF i = 0 THEN @
                            ELSE [@ EXCEPT ![i].status = txn[p].response,
                                           ![i].response_date = @ + 1]]
  /\ txn' = Finish(p, TRUE)
  /\ UNCHANGED <<conn, fallback_data, last, args>>

JoinCommit(p) ==
  /\ txn[p].pc = "updated"
  /\ LET c == txn[p].committee_id
         i == txn[p].invitation_id
         member == [committee_id |-> c, user_id |-> txn[p].user_id,
                    position |-> txn[p].position]
     IN  db' = [db EXCEPT !.committee_members = @ \cup {member},
                          !.committees[c].current_members = @ + 1,
                          !.invitations =
                            IF i = 0 THEN @
                            ELSE [@ EXCEPT ![i].status = txn[p].response,
                                           ![i].response_date = @ + 1]]
  /\ txn' = Finish(p, TRUE)
  /\ UNCHANGED <<conn, fallback_data, last, args>>

RaceInit == Init /\ conn

RaceNext ==
  \/ Create
  \/ \E p \in Sessions, c \in CommitteeIds, u \in Users : JoinSelect(p, c, u)
  \/ \E p \in Sessions : JoinInsert(p)
  \/ \E p \in Sessions : JoinUpdate(p)
  \/ \E p \in Sessions : JoinCommit(p)

SpecRace == RaceInit /\ [][RaceNext]_vars

(***************************************************************************)
(* respond_to_invitation's database branch, statement by statement.  The   *)
(* call begins by opening a connection.  Its UPDATE of the invitation      *)
(* waits for an uncommitted UPDATE of the same row and is then evaluated   *)
(* on the committed row: no row with status 'pending' returns False.  On   *)
(* 'rejected' the transaction commits; on 'accepted' the statements of     *)
(* _join_committee_internal follow in the same transaction (the SELECT of  *)
(* the committee, then the INSERT, the UPDATE and the commit, which are    *)
(* those of join_committee), and a failed join rolls everything back.      *)
(* approve_join_request and reject_join_request call                       *)
(* respond_to_invitation with 'accepted' and 'rejected'.                   *)
(***************************************************************************)
Responding(p) ==
  txn[p].pc \in {"called", "responded", "selected", "inserted", "updated"}
    /\ txn[p].invitation_id # 0

HoldsInvitation(p, i) ==
  /\ txn[p].pc \in {"responded", "selected", "inserted", "updated"}
  /\ txn[p].invitation_id = i

RespondBegin(p, i, response) ==
  /\ conn
  /\ txn[p].pc \in {"idle", "done"}
  /\ i \in DOMAIN db.invitations
       => db.invitations[i].response_date < MaxResponses
  /\ LET others == {q \in Sessions \ {p} : Responding(q)}
         begun == [IdleTxn EXCEPT
                     !.pc = "called", !.invitation_id = i,
                     !.response = response, !.overlap = others,
                     !.was_pending =
                       /\ i \in DOMAIN db.invitations
                       /\ db.invitations[i].status = "pending"]
     IN  txn' = [q \in Sessions |->
                   IF q = p THEN begun
                   ELSE IF q \in others
                        THEN [txn[q] EXCEPT !.overlap = @ \cup {p}]
                        ELSE txn[q]]
  /\ UNCHANGED <<conn, db, fallback_data, last, args>>

(* The UPDATE of the invitation evaluated without waiting for the row. *)
RespondUpdate_without_row_lock(p) ==
  /\ txn[p].pc = "called"
  /\ LET i == txn[p].invitation_id
     IN  txn' = IF i \notin DOMAIN db.invitations
                   \/ db.invitations[i].status # "pending"
                THEN Finish(p, FALSE)
                ELSE [txn EXCEPT ![p].pc = "responded"]
  /\ UNCHANGED <<conn, db, fallback_data, last, args>>

RespondUpdate(p) ==
  /\ txn[p].pc = "called"
  /\ ~\E q \in Sessions \ {p} : HoldsInvitation(q, txn[p].invitation_id)
  /\ LET i == txn[p].invitation_id
     IN  txn' = IF i \notin DOMAIN db.invitations
                   \/ db.invitations[i].status # "pending"
                THEN Finish(p, FALSE)
                ELSE [txn EXCEPT ![p].pc = "responded"]
  /\ UNCHANGED <<conn, db, fallback_data, last, args>>

RespondReject(p) ==
  /\ txn[p].pc = "responded"
  /\ txn[p].response # "accepted"
  /\ LET i == txn[p].invitation_id
     IN  db' = [db EXCEPT !.invitations[i].status = txn[p].response,
                          !.invitations[i].response_date = @ + 1]
  /\ txn' = Finish(p, TRUE)
  /\ UNCHANGED <<conn, fallback_data, last, args>>

RespondSelect(p) ==
  /\ txn[p].pc = "responded"
  /\ txn[p].response = "accepted"
  /\ LET i == txn[p].invitation_id
         c == db.invitations[i].committee_id
         u == db.invitations[i].invited_user_id
         exists == c \in DOMAIN db.committees
         current == IF exists THEN db.committees[c].current_members ELSE 0
         total == IF exists THEN db.committees[c].total_members ELSE 0
     IN  txn' = IF ~exists \/ current >= total
                THEN Finish(p, FALSE)
                ELSE [txn EXCEPT ![p].pc = "selected",
                                 ![p].committee_id = c, ![p].user_id = u,
                                 ![p].current = current, ![p].total = total,
                                 ![p].position = current + 1,
                                 ![p].was_member = IsMember(db, c, u)]
  /\ UNCHANGED <<conn, db, fallback_data, last, args>>

ApproveJoinRequest(p, request_id) == RespondBegin(p, request_id, "accepted")

RejectJoinRequest(p, request_id) == RespondBegin(p, request_id, "rejected")

(***************************************************************************)
(* SpecRespondRace: the admin creates a committee and invites a member,    *)
(* and two sessions run at the same time: both may call join_committee,    *)
(* the first is the invitee's (respond_to_invitation), the second the      *)
(* admin's (approve_join_request, reject_join_request).                    *)
(***************************************************************************)
Invitees == Users \ {"demo_admin"}

RespondRaceCreate ==
  \E t \in 2..MaxTotal, ct \in CommitteeTypes :
    show_create_committee("demo_admin", 1000, t, 2, ct)

RespondRaceSend ==
  \E c \in CommitteeIds, u \in Invitees :
    SendCommitteeInvitation(MaxInvitations, c, u, "demo_admin")

RespondRaceNext ==
  \/ RespondRaceCreate
  \/ RespondRaceSend
  \/ \E p \in Sessions, c \in CommitteeIds, u \in Invitees : JoinSelect(p, c, u)
  \/ \E p \in Sessions : JoinInsert(p)
  \/ \E p \in Sessions : JoinUpdate(p)
  \/ \E p \in Sessions : JoinCommit(p)
  \/ \E i \in 1..MaxInvitations, response \in Responses : RespondBegin("s1", i, response)
  \/ \E i \in 1..MaxInvitations : ApproveJoinRequest("s2", i)
  \/ \E i \in 1..MaxInvitations : RejectJoinRequest("s2", i)
  \/ \E p \in Sessions : RespondUpdate(p)
  \/ \E p \in Sessions : RespondReject(p)
  \/ \E p \in Sessions : RespondSelect(p)

SpecRespondRace == RaceInit /\ [][RespondRaceNext]_vars

(***************************************************************************)
(* utils/payment_manager.py.  Dates are day numbers and a timedelta is a   *)
(* number of days.  interval_days: 30 for 'monthly', 60 for 'bi_monthly',  *)
(* 30 for anything else.                                                   *)
(***************************************************************************)
interval_days(payment_frequency) ==
  IF payment_frequency = "monthly" THEN 30
  ELSE IF payment_frequency = "bi_monthly" THEN 60
  ELSE 30

(***************************************************************************)
(* calculate_payment_schedule with the due dates counted from the cycle's  *)
(* number instead of its index.                                            *)
(***************************************************************************)
calculate_payment_schedule_late_start(start_date, payment_frequency, duration) ==
  [k \in 1..duration |->
     [cycle |-> k,
      due_date |-> start_date + interval_days(payment_frequency) * k,
      amount_per_member |-> "None"]]

(***************************************************************************)
(* calculate_payment_schedule: for cycle in range(duration), one entry     *)
(* numbered cycle + 1 and due interval_days * cycle days after start_date. *)
(* Entry k of the list is the one of cycle k - 1.                          *)
(***************************************************************************)
calculate_payment_schedule(start_date, payment_frequency, duration) ==
  [k \in 1..duration |->
     [cycle |-> k,
      due_date |-> start_date + interval_days(payment_frequency) * (k - 1),
      amount_per_member |-> "None"]]

(***************************************************************************)
(* calculate_payout_schedule with the positions enumerated from 0.         *)
(***************************************************************************)
calculate_payout_schedule_from_zero(members, start_date, payment_frequency) ==
  [i \in 1..Len(members) |->
     [position |-> i - 1, member_id |-> members[i],
      payout_date |-> start_date
                        + interval_days(payment_frequency) * (i - 2),
      is_completed |-> FALSE]]

(***************************************************************************)
(* calculate_payout_schedule: one entry per member of the list, in list    *)
(* order, numbered from 1, interval_days apart.                            *)
(***************************************************************************)
calculate_payout_schedule(members, start_date, payment_frequency) ==
  [position \in 1..Len(members) |->
     [position |-> position, member_id |-> members[position],
      payout_date |-> start_date
                        + interval_days(payment_frequency) * (position - 1),
      is_completed |-> FALSE]]

(***************************************************************************)
(* get_payout_notifications with the pool taken over total_members.        *)
(***************************************************************************)
get_payout_notifications_total_members(s, user_id) ==
  {[committee_id |-> committee.id,
    amount |-> committee.monthly_amount * committee.total_members] :
     committee \in {x \in get_user_committees(s, user_id) :
                      get_member_position_in_committee(s, x.id, user_id) = 1}}

(***************************************************************************)
(* get_payout_notifications: for each committee of the user in which the   *)
(* user holds position 1, a notification whose amount is the committee's   *)
(* monthly_amount times its current_members as just read.                  *)
(***************************************************************************)
get_payout_notifications(s, user_id) ==
  {[committee_id |-> committee.id,
    amount |-> committee.monthly_amount * committee.current_members] :
     committee \in {x \in get_user_committees(s, user_id) :
                      get_member_position_in_committee(s, x.id, user_id) = 1}}

(***************************************************************************)
(* SpecSchedule: the two schedule functions applied to arguments chosen at *)
(* the start.  Frequencies holds the two frequencies of the forms and one  *)
(* that is neither.                                                        *)
(***************************************************************************)
Frequencies == {"monthly", "bi_monthly", "weekly"}

MemberLists ==
  UNION {[1..n -> Users] : n \in 0..MaxMembers}

ScheduleArgs ==
  [start_date : 0..MaxStartDay, payment_frequency : Frequencies,
   duration : 0..MaxDuration, members : MemberLists]

Returned(op, ret) == [op |-> op, ret |-> ret]

CalculatePaymentSchedule ==
  /\ last' = Returned("calculate_payment_schedule",
                      calculate_payment_schedule(args.start_date,
                                                 args.payment_frequency,
                                                 args.duration))
  /\ UNCHANGED <<conn, db, fallback_data, txn, args>>

CalculatePayoutSchedule ==
  /\ last' = Returned("calculate_payout_schedule",
                      calculate_payout_schedule(args.members,
                                                args.start_date,
                                                args.payment_frequency))
  /\ UNCHANGED <<conn, db, fallback_data, txn, args>>

ScheduleInit ==
  /\ conn \in BOOLEAN
  /\ db = EmptyStore
  /\ fallback_data = EmptyStore
  /\ last = NoCall
  /\ txn = [p \in Sessions |-> IdleTxn]
  /\ args \in ScheduleArgs

ScheduleNext == CalculatePaymentSchedule \/ CalculatePayoutSchedule

SpecSchedule == ScheduleInit /\ [][ScheduleNext]_vars

(***************************************************************************)
(* utils/trust_score.py.  calculate_trust_score reads the user's payments  *)
(* (get_user_payment_history), the user's committees (get_user_committees) *)
(* and, for the tenure, the user (get_user_by_id); here the three reads    *)
(* are its arguments.  A payment is a Payment object, which has no         *)
(* due_date attribute; the user is the dict returned by get_user_by_id or  *)
(* None, and hasattr on a dict looks at the attributes of dict, not at its *)
(* keys.  int() of a non-negative quotient is the integer division.        *)
(***************************************************************************)
Payment(status, payment_date) ==
  [status |-> status, payment_date |-> payment_date]

None == [none |-> TRUE]

get_user_by_id(s, user_id) ==
  IF user_id \in DOMAIN s.users
  THEN [id |-> user_id, username |-> s.users[user_id].username,
        role |-> s.users[user_id].role,
        trust_score |-> s.users[user_id].trust_score]
  ELSE None

DictAttributes ==
  {"get", "keys", "values", "items", "update", "pop", "copy", "clear",
   "setdefault", "popitem", "fromkeys"}

Min(a, b) == IF a < b THEN a ELSE b

Max(a, b) == IF a > b THEN a ELSE b

_calculate_payment_score(payments) ==
  IF payments = <<>>
  THEN 0
  ELSE LET paid_payments ==
             {i \in 1..Len(payments) : payments[i].status = "paid"}
           total_payments == Len(payments)
           on_time_payments ==
             {i \in paid_payments :
                /\ "due_date" \in DOMAIN payments[i]
                /\ "payment_date" \in DOMAIN payments[i]
                /\ payments[i].payment_date <= payments[i].due_date}
           paid == Cardinality(paid_payments)
           on_time == Cardinality(on_time_payments)
       IN  IF paid = 0
           THEN 0
           ELSE (25 * paid * paid + 15 * on_time * total_payments)
                  \div (total_payments * paid)

_calculate_completion_score(committees) ==
  IF committees = <<>>
  THEN 0
  ELSE LET completed_committees ==
             {i \in 1..Len(committees) : committees[i].status = "completed"}
           active_committees ==
             {i \in 1..Len(committees) : committees[i].status = "active"}
           active_bonus == Min(10, Cardinality(active_committees) * 2)
       IN  (20 * Cardinality(completed_committees)) \div Len(committees)
             + active_bonus

_calculate_tenure_score(user_data, account_age_days) ==
  IF user_data = None \/ "created_date" \notin DictAttributes
  THEN 0
  ELSE Min(20, account_age_days \div 30)

(***************************************************************************)
(* calculate_trust_score that adds the components to the default score     *)
(* and does not cap the sum.                                               *)
(***************************************************************************)
calculate_trust_score_bonus_on_default(payments, committees, user_data, account_age_days) ==
  85 + _calculate_payment_score(payments)
     + _calculate_completion_score(committees)
     + _calculate_tenure_score(user_data, account_age_days)

calculate_trust_score(payments, committees, user_data, account_age_days) ==
  IF payments = <<>> /\ committees = <<>>
  THEN 85
  ELSE LET base_score == 50
           payment_score == _calculate_payment_score(payments)
           completion_score == _calculate_completion_score(committees)
           tenure_score == _calculate_tenure_score(user_data,
                                                   account_age_days)
           total_score ==
             base_score + payment_score + completion_score + tenure_score
       IN  Min(100, Max(0, total_score))

(***************************************************************************)
(* SpecTrust: calculate_trust_score and two of its components applied to a *)
(* payment history, a committee list, a user and an account age chosen at  *)
(* the start.  A payment is made on day 0 or on day 1.                     *)
(***************************************************************************)
PaymentDates == {0, 1}

PaymentHistories ==
  UNION {[1..n -> {Payment(st, day) : st \in {"paid", "pending"},
                                      day \in PaymentDates}] :
           n \in 0..MaxPayments}

CommitteeLists ==
  UNION {[1..n -> {[status |-> st] : st \in Statuses}] :
           n \in 0..MaxUserCommittees}

AccountAges == {0, 45, 700}

TrustArgs ==
  [payments : PaymentHistories, committees : CommitteeLists,
   user_id : {"demo_member", "nobody"}, account_age_days : AccountAges]

CalculateTrustScore ==
  /\ last' = Returned("calculate_trust_score",
                      calculate_trust_score(args.payments, args.committees,
                                            get_user_by_id(Store, args.user_id),
                                            args.account_age_days))
  /\ UNCHANGED <<conn, db, fallback_data, txn, args>>

TrustInit ==
  /\ conn \in BOOLEAN
  /\ db = EmptyStore
  /\ fallback_data = EmptyStore
  /\ last = NoCall
  /\ txn = [p \in Sessions |-> IdleTxn]
  /\ args \in TrustArgs

CalculatePaymentScore ==
  /\ last' = Returned("_calculate_payment_score",
                      _calculate_payment_score(args.payments))
  /\ UNCHANGED <<conn, db, fallback_data, txn, args>>

CalculateTenureScore ==
  /\ last' = Returned("_calculate_tenure_score",
                      _calculate_tenure_score(get_user_by_id(Store, args.user_id),
                                              args.account_age_days))
  /\ UNCHANGED <<conn, db, fallback_data, txn, args>>

TrustNext ==
  \/ CalculateTrustScore
  \/ CalculatePaymentScore
  \/ CalculateTenureScore

SpecTrust == TrustInit /\ [][TrustNext]_vars

(***************************************************************************)
(* The trust score of a stored user.  TrustScoreManager reads the payment  *)
(* history, the committees and the user from the repository.               *)
(* get_user_payment_history returns no payment in the fallback branch and  *)
(* the user's rows of payments in the PostgreSQL branch; a list is built   *)
(* from the rows only to be counted.  get_current_trust_score looks for    *)
(* the attribute trust_score on the dict returned by get_user_by_id.       *)
(* _log_trust_score_change and the last branch of                          *)
(* update_trust_score_for_payment are 'pass': they leave the store as it   *)
(* is.  process_payment builds the paid payment, calls                     *)
(* update_trust_score_for_payment and returns the payment.                 *)
(***************************************************************************)
RECURSIVE AsList(_)

AsList(rows) ==
  IF rows = {}
  THEN <<>>
  ELSE LET row == CHOOSE x \in rows : TRUE
       IN  <<row>> \o AsList(rows \ {row})

get_user_payment_history(connected, s, user_id) ==
  IF connected
  THEN AsList({p \in s.payments : p.user_id = user_id})
  ELSE <<>>

trust_score_of(connected, s, user_id, account_age_days) ==
  calculate_trust_score(get_user_payment_history(connected, s, user_id),
                        AsList(get_user_committees(s, user_id)),
                        get_user_by_id(s, user_id), account_age_days)

get_current_trust_score(s, user_id) ==
  LET user_data == get_user_by_id(s, user_id)
  IN  IF user_data # None /\ "trust_score" \in DictAttributes
      THEN user_data.trust_score
      ELSE 85

_log_trust_score_change(s, user_id, old_score, new_score) == s

update_trust_score(connected, s, user_id, account_age_days) ==
  LET old_score == get_current_trust_score(s, user_id)
      new_score == trust_score_of(connected, s, user_id, account_age_days)
  IN  Result(IF new_score - old_score >= 1 \/ old_score - new_score >= 1
             THEN _log_trust_score_change(s, user_id, old_score, new_score)
             ELSE s,
             new_score)

update_trust_score_for_payment(s, user_id, on_time) ==
  LET current_user == get_user_by_id(s, user_id)
  IN  IF current_user = None
      THEN s
      ELSE LET current_score == current_user.trust_score
               new_score == IF on_time
                            THEN Min(100, current_score + 1)
                            ELSE Max(0, current_score - 3)
           IN  IF new_score # current_score THEN s ELSE s

process_payment(s, committee_id, user_id, amount) ==
  Result(update_trust_score_for_payment(s, user_id, TRUE),
         [committee_id |-> committee_id, user_id |-> user_id,
          amount |-> amount, status |-> "paid"])

TrustCall(op, user_id, ret) == [op |-> op, user_id |-> user_id, ret |-> ret]

PaymentCall(user_id, payment_data) ==
  [op |-> "process_payment", user_id |-> user_id,
   payment_data |-> payment_data]

ProcessPayment(c, u, amount) ==
  LET r == process_payment(Store, c, u, amount)
  IN  Commit(r, PaymentCall(u, r.ret))

UpdateTrustScore(u) ==
  LET r == update_trust_score(conn, Store, u, args.account_age_days)
  IN  Commit(r, TrustCall("update_trust_score", u, r.ret))

(***************************************************************************)
(* SpecTrustUpdate: committees are created and joined, payments are        *)
(* processed and update_trust_score is called, for users whose account     *)
(* age is chosen at the start.  update_trust_score is the only method that *)
(* recomputes a score; the fairness condition lets it run for every user   *)
(* again and again.                                                        *)
(***************************************************************************)
TrustUpdateInit ==
  /\ conn \in BOOLEAN
  /\ db = EmptyStore
  /\ fallback_data = EmptyStore
  /\ last = NoCall
  /\ txn = [p \in Sessions |-> IdleTxn]
  /\ args \in [account_age_days : AccountAges]

Pay == \E c \in CommitteeIds, u \in Users, a \in Amounts : ProcessPayment(c, u, a)

Recompute == \E u \in Users : UpdateTrustScore(u)

TrustUpdateNext ==
  \/ Create
  \/ Join
  \/ Pay
  \/ Recompute

TrustUpdateFairness == \A u \in Users : WF_vars(UpdateTrustScore(u))

SpecTrustUpdate ==
  TrustUpdateInit /\ [][TrustUpdateNext]_vars /\ TrustUpdateFairness

(***************************************************************************)
(* create_user.  The fallback branch looks for a user with the same        *)
(* username before it stores the new User with trust_score 85; the         *)
(* PostgreSQL branch inserts the row without a trust_score, which takes    *)
(* the column default 85, and the UNIQUE constraint on users.username      *)
(* raises IntegrityError, answered with a rollback and False.              *)
(***************************************************************************)
NewUserIds == <<"user1", "user2", "user3">>

Usernames == {"demo_admin", "member2", "newcomer", "guest", "visitor"}

Roles == {"admin", "member"}

TrustScoreDefault == 85

InsertUser(s, username, user_role, trust_score) ==
  [s EXCEPT !.users = @ @@ (NewUserIds[s.next_user] :>
                              [username |-> username, role |-> user_role,
                               trust_score |-> trust_score]),
            !.next_user = @ + 1]

(* create_user that stores the user whatever usernames exist. *)
create_user_any_username(connected, s, username, user_role) ==
  Result(InsertUser(s, username, user_role, 85), TRUE)

create_user(connected, s, username, user_role) ==
  IF ~connected
  THEN IF \E id \in DOMAIN s.users : s.users[id].username = username
       THEN Result(s, FALSE)
       ELSE Result(InsertUser(s, username, user_role, 85), TRUE)
  ELSE LET IntegrityError ==
             \E id \in DOMAIN s.users : s.users[id].username = username
       IN  IF IntegrityError
           THEN Result(s, FALSE)
           ELSE Result(InsertUser(s, username, user_role, TrustScoreDefault),
                       TRUE)

UserCall(username, user_role, ret) ==
  [op |-> "create_user", username |-> username, role |-> user_role,
   ret |-> ret]

CreateUser(username, user_role) ==
  /\ Store.next_user <= MaxUsers
  /\ LET r == create_user(conn, Store, username, user_role)
     IN  Commit(r, UserCall(username, user_role, r.ret))

(***************************************************************************)
(* SpecUsers: users register, two of them at most with a new username.     *)
(***************************************************************************)
Register == \E username \in Usernames, r \in Roles : CreateUser(username, r)

UsersNext == Register

SpecUsers == Init /\ [][UsersNext]_vars

(***************************************************************************)
(* Outages.  get_connection() is called by every method and returns None   *)
(* when the database cannot be reached at that moment.  conn tells whether *)
(* the database was reachable when the DatabaseManager was constructed:    *)
(* initialize_database calls _init_fallback_storage, which creates the     *)
(* attribute fallback_data, only when it was not.  A database that was     *)
(* unreachable at construction stays unreachable here.  The fallback       *)
(* branches of create_committee, join_committee and delete_committee read  *)
(* self.fallback_data, which raises AttributeError when the attribute was  *)
(* never created; fallback_invitations is created on demand by             *)
(* send_committee_invitation and looked up with hasattr elsewhere.  The    *)
(* fallback branch of respond_to_invitation writes the status and then     *)
(* calls join_committee, which asks for a connection of its own.           *)
(***************************************************************************)
Reachable == IF conn THEN BOOLEAN ELSE {FALSE}

HasFallbackData == ~conn

StoreAt(connected) == IF connected THEN db ELSE fallback_data

OutageCall(op, c, u, i, response, connected, ret, raised) ==
  [op |-> op, committee_id |-> c, user_id |-> u, invitation_id |-> i,
   response |-> response, connected |-> connected, ret |-> ret,
   raised |-> raised]

Served(connected, r, op, c, u, i, response) ==
  /\ IF connected
     THEN db' = r.store /\ UNCHANGED fallback_data
     ELSE fallback_data' = r.store /\ UNCHANGED db
  /\ last' = OutageCall(op, c, u, i, response, connected, r.ret, FALSE)
  /\ UNCHANGED <<conn, txn, args>>

AttributeError(op, c, u, i, response) ==
  /\ last' = OutageCall(op, c, u, i, response, FALSE, FALSE, TRUE)
  /\ UNCHANGED <<conn, db, fallback_data, txn, args>>

OutageCreateCommittee(connected, monthly_amount, total_members, duration, committee_type, admin_id) ==
  /\ StoreAt(connected).next_committee <= MaxCommittees
  /\ IF ~connected /\ ~HasFallbackData
     THEN AttributeError("create_committee", 0, admin_id, 0, "none")
     ELSE Served(connected,
                 create_committee(StoreAt(connected), monthly_amount,
                                  total_members, duration, committee_type,
                                  admin_id),
                 "create_committee", StoreAt(connected).next_committee,
                 admin_id, 0, "none")

OutageJoinCommittee(connected, c, u) ==
  IF ~connected /\ ~HasFallbackData
  THEN AttributeError("join_committee", c, u, 0, "none")
  ELSE Served(connected, join_committee(connected, StoreAt(connected), c, u),
              "join_committee", c, u, 0, "none")

OutageDeleteCommittee(connected, c) ==
  IF ~connected /\ ~HasFallbackData
  THEN AttributeError("delete_committee", c, "none", 0, "none")
  ELSE Served(connected, delete_committee(connected, StoreAt(connected), c),
              "delete_committee", c, "none", 0, "none")

OutageSendCommitteeInvitation(connected, c, invited_user_id, invited_by_id) ==
  /\ NextInvitation(StoreAt(connected)) <= MaxInvitations
  /\ Served(connected,
            send_committee_invitation(connected, StoreAt(connected), c,
                                      invited_user_id, invited_by_id),
            "send_committee_invitation", c, invited_user_id, 0, "none")

OutageRespondToInvitation(connected, connected_join, i, response) ==
  /\ i \in DOMAIN StoreAt(connected).invitations
       => StoreAt(connected).invitations[i].response_date < MaxResponses
  /\ IF connected
     THEN Served(TRUE, respond_to_invitation_db(db, i, response),
                 "respond_to_invitation", 0, "none", i, response)
     ELSE IF i \notin DOMAIN fallback_data.invitations
     THEN Served(FALSE, Result(fallback_data, FALSE),
                 "respond_to_invitation", 0, "none", i, response)
     ELSE LET invitation == fallback_data.invitations[i]
              updated ==
                [fallback_data EXCEPT !.invitations[i].status = response,
                                      !.invitations[i].response_date = @ + 1]
          IN  IF response # "accepted"
              THEN Served(FALSE, Result(updated, TRUE),
                          "respond_to_invitation", 0, "none", i, response)
              ELSE IF connected_join
              THEN LET r == join_committee_db(db, invitation.committee_id,
                                              invitation.invited_user_id)
                   IN  /\ db' = r.store
                       /\ fallback_data' = updated
                       /\ last' = OutageCall("respond_to_invitation", 0,
                                             "none", i, response, FALSE,
                                             r.ret, FALSE)
                       /\ UNCHANGED <<conn, txn, args>>
              ELSE IF HasFallbackData
              THEN Served(FALSE,
                          join_committee_fallback(updated,
                                                  invitation.committee_id,
                                                  invitation.invited_user_id),
                          "respond_to_invitation", 0, "none", i, response)
              ELSE /\ fallback_data' = updated
                   /\ last' = OutageCall("respond_to_invitation", 0, "none",
                                         i, response, FALSE, FALSE, TRUE)
                   /\ UNCHANGED <<conn, db, txn, args>>

(***************************************************************************)
(* SpecOutage: the repository methods called one at a time, each call      *)
(* finding the database reachable or not.                                  *)
(***************************************************************************)
OutageInit ==
  /\ conn \in BOOLEAN
  /\ db = EmptyStore
  /\ fallback_data = EmptyStore
  /\ last = OutageCall("none", 0, "none", 0, "none", FALSE, FALSE, FALSE)
  /\ txn = [p \in Sessions |-> IdleTxn]
  /\ args = NoArgs

OutageCreate ==
  \E connected \in Reachable, t \in 2..MaxTotal, ct \in CommitteeTypes, u \in Users :
    OutageCreateCommittee(connected, 1000, t, 2, ct, u)

OutageJoin ==
  \E connected \in Reachable, c \in CommitteeIds, u \in Users :
    OutageJoinCommittee(connected, c, u)

OutageDelete ==
  \E connected \in Reachable, c \in CommitteeIds :
    OutageDeleteCommittee(connected, c)

OutageSend ==
  \E connected \in Reachable, c \in CommitteeIds, u \in Users :
    OutageSendCommitteeInvitation(connected, c, u, "demo_admin")

OutageRespond ==
  \E connected \in Reachable, connected_join \in Reachable, i \in 1..MaxInvitations, response \in Responses :
    OutageRespondToInvitation(connected, connected_join, i, response)

OutageNext ==
  \/ OutageCreate
  \/ OutageJoin
  \/ OutageDelete
  \/ OutageSend
  \/ OutageRespond

SpecOutage == OutageInit /\ [][OutageNext]_vars

(***************************************************************************)
(* SpecEquivalence: the same calls, one at a time, made on a               *)
(* DatabaseManager that reaches its database (db) and on one that does     *)
(* not (fallback_data), both starting with the same data.  last keeps what *)
(* the call returned in each.                                              *)
(***************************************************************************)
BothCall(op, c, u, i, response, ret, fallback_ret) ==
  [op |-> op, committee_id |-> c, user_id |-> u, invitation_id |-> i,
   response |-> response, ret |-> ret, fallback_ret |-> fallback_ret]

Both(r, f, op, c, u, i, response) ==
  /\ db' = r.store
  /\ fallback_data' = f.store
  /\ last' = BothCall(op, c, u, i, response, r.ret, f.ret)
  /\ UNCHANGED <<conn, txn, args>>

BothCreateCommittee(monthly_amount, total_members, duration, committee_type, admin_id) ==
  /\ db.next_committee <= MaxCommittees
  /\ fallback_data.next_committee <= MaxCommittees
  /\ Both(create_committee(db, monthly_amount, total_members, duration,
                           committee_type, admin_id),
          create_committee(fallback_data, monthly_amount, total_members,
                           duration, committee_type, admin_id),
          "create_committee", db.next_committee, admin_id, 0, "none")

BothJoinCommittee(c, u) ==
  Both(join_committee(TRUE, db, c, u),
       join_committee(FALSE, fallback_data, c, u),
       "join_committee", c, u, 0, "none")

BothSendCommitteeInvitation(c, invited_user_id, invited_by_id) ==
  /\ NextInvitation(db) <= MaxInvitations
  /\ NextInvitation(fallback_data) <= MaxInvitations
  /\ Both(send_committee_invitation(TRUE, db, c, invited_user_id,
                                    invited_by_id),
          send_committee_invitation(FALSE, fallback_data, c, invited_user_id,
                                    invited_by_id),
          "send_committee_invitation", c, invited_user_id, 0, "none")

BothRespondToInvitation(i, response) ==
  /\ \A s \in {db, fallback_data} :
       i \in DOMAIN s.invitations
         => s.invitations[i].response_date < MaxResponses
  /\ Both(respond_to_invitation(TRUE, db, i, response),
          respond_to_invitation(FALSE, fallback_data, i, response),
          "respond_to_invitation", 0, "none", i, response)

BothDeleteCommittee(c) ==
  Both(delete_committee(TRUE, db, c),
       delete_committee(FALSE, fallback_data, c),
       "delete_committee", c, "none", 0, "none")

EquivalenceInit ==
  /\ conn \in BOOLEAN
  /\ db = EmptyStore
  /\ fallback_data = EmptyStore
  /\ last = BothCall("none", 0, "none", 0, "none", FALSE, FALSE)
  /\ txn = [p \in Sessions |-> IdleTxn]
  /\ args = NoArgs

BothCreate ==
  \E t \in 2..MaxTotal, ct \in CommitteeTypes, u \in Users :
    BothCreateCommittee(1000, t, 2, ct, u)

BothJoin == \E c \in CommitteeIds, u \in Users : BothJoinCommittee(c, u)

BothSend ==
  \E c \in CommitteeIds, u \in Users, by \in Users :
    BothSendCommitteeInvitation(c, u, by)

BothRespond ==
  \E i \in 1..MaxInvitations, response \in Responses :
    BothRespondToInvitation(i, response)

BothDelete == \E c \in CommitteeIds : BothDeleteCommittee(c)

EquivalenceNext ==
  \/ BothCreate
  \/ BothJoin
  \/ BothSend
  \/ BothRespond
  \/ BothDelete

SpecEquivalence == EquivalenceInit /\ [][EquivalenceNext]_vars

(***************************************************************************)
(* Properties.                                                             *)
(***************************************************************************)
Committees == DOMAIN Store.committees

Invitations == DOMAIN Store.invitations

Full(s, c) ==
  s.committees[c].current_members = s.committees[c].total_members

Positions(s, c) == {m.position : m \in MembersOf(s, c)}

(* The members of a committee as a list in the order of their positions. *)
PositionOrder(s, c) ==
  [k \in 1..Cardinality(MembersOf(s, c)) |->
     (CHOOSE m \in MembersOf(s, c) : m.position = k).user_id]

PositionDensity ==
  \A c \in Committees :
    /\ Positions(Store, c) = 1..Store.committees[c].current_members
    /\ Cardinality(MembersOf(Store, c)) = Store.committees[c].current_members

(* C2 witness: a committee with three memberships after two joins. *)
ThreePositions ==
  \E c \in Committees :
    /\ Cardinality(MembersOf(Store, c)) = 3
    /\ last.ret
    /\ last.op \in {"join_committee", "respond_to_invitation"}

(* C3: two overlapping join_committee calls of two non-members on a      *)
(* committee with one open slot end with exactly one True and            *)
(* current_members one higher.                                           *)
LastSlotRace ==
  \A p \in Sessions, q \in Sessions :
    ( /\ p # q
      /\ txn[p].pc = "done" /\ txn[q].pc = "done"
      /\ q \in txn[p].overlap /\ p \in txn[q].overlap
      /\ txn[p].committee_id = txn[q].committee_id
      /\ txn[p].user_id # txn[q].user_id
      /\ ~txn[p].was_member /\ ~txn[q].was_member
      /\ txn[p].current = txn[p].total - 1
      /\ txn[q].current = txn[q].total - 1 )
    => /\ txn[p].ret # txn[q].ret
       /\ db.committees[txn[p].committee_id].current_members
            = txn[p].current + 1

(* C4: two overlapping join_committee calls of two non-members that both *)
(* return True give the two users the positions old current_members + 1  *)
(* and old current_members + 2.                                          *)
ConcurrentPositions ==
  \A p \in Sessions, q \in Sessions :
    ( /\ p # q
      /\ txn[p].pc = "done" /\ txn[q].pc = "done"
      /\ q \in txn[p].overlap /\ p \in txn[q].overlap
      /\ txn[p].committee_id = txn[q].committee_id
      /\ txn[p].user_id # txn[q].user_id
      /\ ~txn[p].was_member /\ ~txn[q].was_member
      /\ txn[p].current <= txn[q].current
      /\ txn[p].current <= txn[p].total - 2
      /\ txn[p].ret /\ txn[q].ret )
    => LET c == txn[p].committee_id
           mine == {m \in MembersOf(db, c) :
                      m.user_id \in {txn[p].user_id, txn[q].user_id}}
       IN  /\ Cardinality(mine) = 2
           /\ {m.position : m \in mine}
                = {txn[p].current + 1, txn[p].current + 2}

(* C5: respond_to_invitation(i, 'accepted') on a pending invitation      *)
(* whose committee is full or already has the invited user returns       *)
(* False, leaves the invitation not accepted and changes no membership   *)
(* and no committee, in both branches.                                   *)
CannotJoin(s, i) ==
  LET c == s.invitations[i].committee_id
  IN  /\ c \in DOMAIN s.committees
      /\ Full(s, c) \/ IsMember(s, c, s.invitations[i].invited_user_id)

AcceptAtomic ==
  [][\A i \in Invitations :
       ( /\ last'.op = "respond_to_invitation"
         /\ last'.invitation_id = i
         /\ last'.response = "accepted"
         /\ Store.invitations[i].status = "pending"
         /\ CannotJoin(Store, i) )
       => /\ ~last'.ret
          /\ Store'.invitations[i].status # "accepted"
          /\ Store'.committee_members = Store.committee_members
          /\ Store'.committees = Store.committees]_vars

(* C6: every committee has exactly one membership of its admin, at       *)
(* position 1, and the payout schedule over the members in position      *)
(* order starts with the admin.                                          *)
AdminFirst ==
  \A c \in Committees :
    LET admin == {m \in MembersOf(Store, c) :
                    m.user_id = Store.committees[c].admin_id}
    IN  /\ Cardinality(admin) = 1
        /\ \A m \in admin : m.position = 1
        /\ PositionDensity
             => calculate_payout_schedule(PositionOrder(Store, c), 0,
                                          "monthly")[1].member_id
                  = Store.committees[c].admin_id

(* C6 witness: a committee created by a member who is not the demo       *)
(* admin, with another member joined after it.                           *)
AdminFirstOfSeveral ==
  \E c \in Committees :
    /\ Store.committees[c].admin_id = "member2"
    /\ Store.committees[c].current_members >= 2
    /\ calculate_payout_schedule(PositionOrder(Store, c), 0,
                                 "monthly")[1].member_id = "member2"

(* C7: join_committee on a committee that does not exist, that is full,  *)
(* or that the user already belongs to returns False and changes no      *)
(* committee, no membership and no invitation.                           *)
JoinSoftFailure ==
  [][\A c \in CommitteeIds, u \in Users :
       ( /\ last'.op = "join_committee"
         /\ last'.committee_id = c
         /\ last'.user_id = u
         /\ \/ c \notin Committees
            \/ Full(Store, c)
            \/ IsMember(Store, c, u) )
       => /\ ~last'.ret
          /\ db' = db
          /\ fallback_data' = fallback_data]_vars

(* C7 witness: a user who is not a member was refused by a full          *)
(* committee.                                                            *)
JoinRefusedByFullCommittee ==
  /\ last.op = "join_committee"
  /\ ~last.ret
  /\ last.committee_id \in Committees
  /\ Full(Store, last.committee_id)
  /\ ~IsMember(Store, last.committee_id, last.user_id)

(* C8: there is at most one pending invitation for each pair of          *)
(* committee and invited user (a second send for the pair is refused).   *)
PendingInvitationUnique ==
  \A i \in Invitations, j \in Invitations :
    ( /\ Store.invitations[i].status = "pending"
      /\ Store.invitations[j].status = "pending"
      /\ Store.invitations[i].committee_id = Store.invitations[j].committee_id
      /\ Store.invitations[i].invited_user_id
           = Store.invitations[j].invited_user_id )
    => i = j

(* C9: send_committee_invitation stores an invitation only when the      *)
(* inviter is the committee's admin and the committee is private;        *)
(* otherwise it returns False and stores nothing.                        *)
InvitationPreconditions ==
  [][\A c \in CommitteeIds :
       ( /\ last'.op = "send_committee_invitation"
         /\ last'.committee_id = c
         /\ ~( /\ c \in Committees
               /\ Store.committees[c].admin_id = last'.invited_by_id
               /\ Store.committees[c].committee_type = "private" ) )
       => /\ ~last'.ret
          /\ Store'.invitations = Store.invitations]_vars

(* C10: an accepted or rejected invitation never changes again, and a    *)
(* later respond_to_invitation on it returns False and changes no        *)
(* membership and no committee, in both branches.                        *)
InvitationTerminal ==
  [][\A i \in Invitations :
       Store.invitations[i].status \in {"accepted", "rejected"}
       => /\ Store'.invitations[i] = Store.invitations[i]
          /\ ( /\ last'.op = "respond_to_invitation"
               /\ last'.invitation_id = i )
             => /\ ~last'.ret
                /\ Store'.committee_members = Store.committee_members
                /\ Store'.committees = Store.committees]_vars

(* C11: the only status changes of a committee are active -> paused,     *)
(* completed, cancelled and paused -> active, completed, cancelled; a    *)
(* completed or cancelled committee keeps its status under every         *)
(* operation.                                                            *)
AllowedStatusChange(old, new) ==
  \/ old = "active" /\ new \in {"paused", "completed", "cancelled"}
  \/ old = "paused" /\ new \in {"active", "completed", "cancelled"}

StatusStateMachine ==
  [][\A c \in Committees :
       ( /\ c \in DOMAIN Store'.committees
         /\ Store'.committees[c].status # Store.committees[c].status )
       => AllowedStatusChange(Store.committees[c].status,
                              Store'.committees[c].status)]_vars

(* C12: a user other than the admin becomes a member of a private        *)
(* committee only by respond_to_invitation(i, 'accepted') on a pending   *)
(* invitation addressed to that user for that committee; join_committee  *)
(* on a private committee creates no membership.                         *)
PrivateRequiresInvitation ==
  [][\A c \in Committees :
       Store.committees[c].committee_type = "private"
       => /\ \A u \in Users \ {Store.committees[c].admin_id} :
               ( /\ ~IsMember(Store, c, u)
                 /\ IsMember(Store', c, u) )
               => /\ last'.op = "respond_to_invitation"
                  /\ last'.response = "accepted"
                  /\ last'.invitation_id \in Invitations
                  /\ LET inv == Store.invitations[last'.invitation_id]
                     IN  /\ inv.status = "pending"
                         /\ inv.committee_id = c
                         /\ inv.invited_user_id = u
          /\ ( /\ last'.op = "join_committee"
               /\ last'.committee_id = c )
             => Store'.committee_members = Store.committee_members]_vars

(* C13: right after a successful create_committee for admin_id,          *)
(* get_user_committees(admin_id) contains the new committee with         *)
(* current_members = 1 and status 'active', and the committee has one    *)
(* membership, the admin's, for which                                    *)
(* get_member_position_in_committee returns 1.                           *)
CreateRoundTrip ==
  (last.op = "create_committee" /\ last.ret)
  => LET c == last.committee_id
         admin_id == last.user_id
         mine == {x \in get_user_committees(Store, admin_id) : x.id = c}
     IN  /\ Cardinality(mine) = 1
         /\ \A x \in mine : x.current_members = 1 /\ x.status = "active"
         /\ {m.user_id : m \in MembersOf(Store, c)} = {admin_id}
         /\ Cardinality(MembersOf(Store, c)) = 1
         /\ get_member_position_in_committee(Store, c, admin_id) = 1

(* C13 witness: a member has just created a committee and it is listed   *)
(* among their committees.                                               *)
CreatedAndListed ==
  /\ last.op = "create_committee"
  /\ last.ret
  /\ last.user_id = "demo_member"
  /\ \E x \in get_user_committees(Store, "demo_member") :
       x.id = last.committee_id

(* C14: create_committee persists no committee and no membership when    *)
(* monthly_amount < 1000, total_members < 2, duration < 1 or             *)
(* committee_type is neither 'public' nor 'private': every committee a   *)
(* create_committee call adds satisfies the four constraints, and a      *)
(* call that returns False changes nothing.                              *)
ValidCommittee(row) ==
  /\ row.monthly_amount >= 1000
  /\ row.total_members >= 2
  /\ row.duration >= 1
  /\ row.committee_type \in {"public", "private"}

CreateValidation ==
  [][last'.op = "create_committee"
     => /\ \A c \in DOMAIN Store'.committees \ Committees :
             ValidCommittee(Store'.committees[c])
        /\ \A m \in Store'.committee_members \ Store.committee_members :
             /\ m.committee_id \in DOMAIN Store'.committees
             /\ ValidCommittee(Store'.committees[m.committee_id])
        /\ ~last'.ret => Store' = Store]_vars

(* C15: after delete_committee(c) returns True the committee is gone and *)
(* no membership, payment or payout references c; when it returns False  *)
(* no committee, membership, payment or payout has been removed.         *)
DeleteCascade ==
  [][last'.op = "delete_committee"
     => LET c == last'.committee_id
        IN  /\ last'.ret
                 => /\ c \notin DOMAIN Store'.committees
                    /\ MembersOf(Store', c) = {}
                    /\ NotOf(Store'.payments, c) = Store'.payments
                    /\ NotOf(Store'.payouts, c) = Store'.payouts
            /\ ~last'.ret
                 => /\ Store'.committees = Store.committees
                    /\ Store'.committee_members = Store.committee_members
                    /\ Store'.payments = Store.payments
                    /\ Store'.payouts = Store.payouts]_vars

(* C15 witness: a committee that an invited user had joined has been     *)
(* deleted together with its memberships.                                *)
DeletedWithMembers ==
  /\ last.op = "delete_committee"
  /\ last.ret
  /\ last.committee_id \notin Committees
  /\ \E i \in Invitations :
       /\ Store.invitations[i].committee_id = last.committee_id
       /\ Store.invitations[i].status = "accepted"
  /\ Store.committee_members = {}

(* C16: for frequency monthly or bi_monthly and duration >= 0,           *)
(* calculate_payment_schedule returns duration entries; the entry of     *)
(* cycle index c is due start_date + interval * c with interval 30 for   *)
(* monthly and 60 for bi_monthly, so the first is due on start_date and  *)
(* consecutive due dates are interval days apart.                        *)
PaymentSchedule ==
  ( /\ last.op = "calculate_payment_schedule"
    /\ args.payment_frequency \in {"monthly", "bi_monthly"} )
  => LET interval == IF args.payment_frequency = "monthly" THEN 30 ELSE 60
         schedule == last.ret
     IN  /\ Len(schedule) = args.duration
         /\ \A c \in 0..(args.duration - 1) :
              schedule[c + 1].due_date = args.start_date + interval * c
         /\ args.duration >= 1 => schedule[1].due_date = args.start_date
         /\ \A k \in 1..(args.duration - 1) :
              schedule[k + 1].due_date - schedule[k].due_date = interval

(* C16 witness: a bi-monthly schedule of three cycles whose last due     *)
(* date is 120 days after the start.                                     *)
ThreeBiMonthlyCycles ==
  /\ last.op = "calculate_payment_schedule"
  /\ args.payment_frequency = "bi_monthly"
  /\ args.duration = 3
  /\ last.ret[3].due_date = args.start_date + 120

(* C17: calculate_payout_schedule returns one entry per member of the    *)
(* list; entry i has position i, the i-th member of the list and         *)
(* payout_date start_date + interval * (i - 1); the positions are        *)
(* exactly 1..n.                                                         *)
PayoutSchedule ==
  last.op = "calculate_payout_schedule"
  => LET interval == IF args.payment_frequency = "bi_monthly" THEN 60 ELSE 30
         n == Len(args.members)
         schedule == last.ret
     IN  /\ Len(schedule) = n
         /\ \A i \in 1..n :
              /\ schedule[i].position = i
              /\ schedule[i].member_id = args.members[i]
              /\ schedule[i].payout_date
                   = args.start_date + interval * (i - 1)
         /\ {schedule[i].position : i \in 1..n} = 1..n

(* C17 witness: a payout schedule for two different members, the second  *)
(* paid one interval after the first.                                    *)
TwoPayouts ==
  /\ last.op = "calculate_payout_schedule"
  /\ Len(args.members) = 2
  /\ args.members[1] # args.members[2]
  /\ args.payment_frequency = "monthly"
  /\ last.ret[2].member_id = args.members[2]
  /\ last.ret[2].payout_date = args.start_date + 30

TrustBootstrap ==
  ( /\ last.op = "calculate_trust_score"
    /\ args.user_id \in Users )
  => IF args.payments = <<>> /\ args.committees = <<>>
     THEN last.ret = 85
     ELSE last.ret
            = Min(100,
                  Max(0, 50 + _calculate_payment_score(args.payments)
                            + _calculate_completion_score(args.committees)
                            + Min(20, args.account_age_days \div 30)))

(* C21: the payment component is floor(25 * paid / total + 15 * on_time  *)
(* / paid), where on_time counts the paid payments made on or before     *)
(* their due date; it is 0 for an empty history and 40 when every        *)
(* payment is paid on time.  The payments are those of the first cycle   *)
(* of a schedule that starts on day 0.                                   *)
FirstDueDate == calculate_payment_schedule(0, "monthly", 1)[1].due_date

PaymentComponent ==
  last.op = "_calculate_payment_score"
  => LET total == Len(args.payments)
         paid == Cardinality({i \in 1..total :
                                args.payments[i].status = "paid"})
         on_time ==
           Cardinality({i \in 1..total :
                          /\ args.payments[i].status = "paid"
                          /\ args.payments[i].payment_date <= FirstDueDate})
     IN  /\ total = 0 => last.ret = 0
         /\ (total > 0 /\ paid = 0) => last.ret = 0
         /\ paid > 0
              => last.ret = (25 * paid * paid + 15 * on_time * total)
                              \div (total * paid)
         /\ (total > 0 /\ on_time = total) => last.ret = 40

(* C22: for an existing user the tenure component is min(20, account age *)
(* in days / 30).                                                        *)
TenureComponent ==
  ( /\ last.op = "_calculate_tenure_score"
    /\ args.user_id \in Users )
  => last.ret = Min(20, args.account_age_days \div 30)

(* C23: once a payment has been processed or a committee event has       *)
(* happened for a user and no further event occurs, the stored           *)
(* trust_score of the user eventually equals, and stays equal to, the    *)
(* trust score calculated from the user's payments, committees and       *)
(* tenure.                                                               *)
TrustEvent(u) ==
  /\ last.op \in {"process_payment", "create_committee", "join_committee"}
  /\ last.user_id = u

NoFurtherEvent == last.op = "update_trust_score"

TrustConsistent(u) ==
  get_user_by_id(Store, u).trust_score
    = trust_score_of(conn, Store, u, args.account_age_days)

TrustEventualConsistency ==
  \A u \in Users :
    (<>TrustEvent(u) /\ <>[]NoFurtherEvent) => <>[]TrustConsistent(u)

(* C24: a call of update_trust_score whose newly computed score differs  *)
(* from the stored score by at least 1 appends one entry to the trust    *)
(* score history, and a call with no difference appends nothing.  The    *)
(* history is kept with the rest of the data, so a call that appends an  *)
(* entry changes the store and a call that appends nothing leaves it.    *)
TrustScoreAudit ==
  [][last'.op = "update_trust_score"
       => LET stored == get_user_by_id(Store, last'.user_id).trust_score
              new_score == last'.ret
          IN  IF new_score - stored >= 1 \/ stored - new_score >= 1
              THEN Store' # Store
              ELSE Store' = Store]_vars

(* C25: no two users share a username; create_user with a username that  *)
(* exists returns false and leaves the users as they are, and a          *)
(* successful create_user stores the new user with trust_score 85.       *)
UniqueUsernames ==
  \A a, b \in DOMAIN Store.users :
    Store.users[a].username = Store.users[b].username => a = b

CreateUserContract ==
  last'.op = "create_user"
  => /\ (\E id \in DOMAIN Store.users :
           Store.users[id].username = last'.username)
          => (~last'.ret /\ Store'.users = Store.users)
     /\ last'.ret
          => \E id \in DOMAIN Store'.users \ DOMAIN Store.users :
               /\ DOMAIN Store'.users = DOMAIN Store.users \cup {id}
               /\ Store'.users[id].username = last'.username
               /\ Store'.users[id].trust_score = 85
               /\ \A old \in DOMAIN Store.users :
                    Store'.users[old] = Store.users[old]

UsernameUniqueness == []UniqueUsernames /\ [][CreateUserContract]_vars

TakenUsernameRefused ==
  /\ last.op = "create_user"
  /\ last.username = "newcomer"
  /\ ~last.ret
  /\ \E id \in DOMAIN Store.users : Store.users[id].username = "newcomer"

(* C26: a repository call made while the database connection cannot be   *)
(* obtained returns normally, without raising an exception, whether or   *)
(* not the database was reachable when the DatabaseManager was           *)
(* constructed and whether or not an invitation was sent before.         *)
StorageOutageDegradation ==
  (last.op # "none" /\ ~last.connected) => ~last.raised

(* C27: each committee's current_members equals the number of its        *)
(* memberships, in every state, also while join_committee and            *)
(* respond_to_invitation calls run at the same time.                     *)
MemberCountConsistency ==
  \A c \in Committees :
    Store.committees[c].current_members = Cardinality(MembersOf(Store, c))

CountedAfterConcurrentCalls ==
  \E p, q \in Sessions :
    /\ p # q
    /\ txn[p].pc = "done" /\ txn[p].ret /\ txn[p].invitation_id # 0
    /\ txn[q].pc = "done" /\ txn[q].ret /\ txn[q].invitation_id = 0
    /\ q \in txn[p].overlap \/ p \in txn[q].overlap
    /\ txn[p].committee_id = txn[q].committee_id
    /\ Store.committees[txn[p].committee_id].current_members = 3

(* C28: when the invitee's respond_to_invitation and the admin's         *)
(* approve_join_request or reject_join_request run at the same time on   *)
(* the same pending invitation, at most one of them takes effect,        *)
(* exactly one if one of the two is a rejection, and the invitee gets at *)
(* most one membership of the committee.                                 *)
ConcurrentResponses(p, q) ==
  /\ p # q
  /\ txn[p].pc = "done" /\ txn[q].pc = "done"
  /\ txn[p].invitation_id # 0
  /\ txn[p].invitation_id = txn[q].invitation_id
  /\ txn[p].was_pending /\ txn[q].was_pending
  /\ q \in txn[p].overlap \/ p \in txn[q].overlap

MembershipsOfInvitee(i) ==
  {m \in db.committee_members :
     /\ m.committee_id = db.invitations[i].committee_id
     /\ m.user_id = db.invitations[i].invited_user_id}

InvitationStatuses(s) ==
  [i \in DOMAIN s.invitations |-> s.invitations[i].status]

FallbackDatabaseEquivalence ==
  last.op # "none"
  => /\ last.ret = last.fallback_ret
     /\ db.committees = fallback_data.committees
     /\ db.committee_members = fallback_data.committee_members
     /\ InvitationStatuses(db) = InvitationStatuses(fallback_data)

(* C30: delete_committee called on an existing committee returns true    *)
(* and removes it, also when invitations reference the committee, and    *)
(* in every state the committee_id of every invitation is that of an     *)
(* existing committee.                                                   *)
InvitationsReferToCommittees ==
  \A i \in Invitations : Store.invitations[i].committee_id \in Committees

DeleteOfExistingSucceeds ==
  (last'.op = "delete_committee" /\ last'.committee_id \in Committees)
  => (last'.ret /\ last'.committee_id \notin DOMAIN Store'.committees)

DeletionWithInvitations ==
  []InvitationsReferToCommittees /\ [][DeleteOfExistingSucceeds]_vars

====
